---- MODULE Spec2Model ----
(***************************************************************************)
(* Model of the WhatsApp catalogue pipeline:                               *)
(*   scraper_json.py       builds one snapshot (scrape_session) per run    *)
(*                         and saves it as a JSON file;                    *)
(*   import_to_supabase.py reconciles a saved snapshot with the store      *)
(*                         (scrape_jobs, sellers, products);               *)
(*   load_sellers_to_db.py loads sellers from a CSV file into the store.   *)
(*   algolia_indexer.py    sends the products of a snapshot to the index;  *)
(*   main.py               loads the sellers, scrapes, imports and indexes. *)
(* Strings are sequences of characters, md5 is an injective tag, uuid4 is  *)
(* a fresh value, the clock ticks once per scraper run.                    *)
(***************************************************************************)
EXTENDS Integers, Sequences, FiniteSets, TLC

\* Python None and SQL NULL where a text is expected: a text no input contains
None == <<"~None">>
\* a key that a JSON object of the snapshot file does not have
Missing == <<"~missing">>
\* Python None and SQL NULL where a timestamp or a job id is expected
NoTime == 0

----------------------------------------------------------------------------
\* Bounds of the model
MaxRuns == 2       \* scraper runs of the pipeline specification
MaxRunsLong == 4   \* scraper runs of the lifecycle specification
MaxObs == 2        \* catalogue items processed in one run (lifecycle)
MaxObsBuild == 3   \* catalogue items processed in the single-run specification
MaxImports == 2    \* imports of one saved snapshot file
MaxImportsLong == 1 \* the same, in the lifecycle specification
MaxIdCalls == 3    \* logged calls of the identity functions
MaxRunsBuild == 1  \* scraper runs of the single-run specification
MaxUuid == 2       \* uuid4 values drawn by the seller loader
MaxObsCrawl == 3   \* catalogue items processed in the crawl specification
MaxFiles == 2      \* snapshot files received from elsewhere
MaxFileProducts == 2 \* products of a received snapshot file
MaxItems == 2      \* items of one catalogue in the loop specification
MaxIterations == 3 \* iterations of the loop over one catalogue

----------------------------------------------------------------------------
\* The input domain: text seen by the crawl
TitleA == <<"a">>
TitleAB == <<"a", "_", "b">>
UrlC == <<"c">>
UrlBC == <<"b", "_", "c">>
Link1 == <<"p", "1">>
Link2 == <<"p", "2">>

Titles == {TitleA, TitleAB}
\* the second text element of a detail page with three or more text elements,
\* as a sequence of words; None when the page has fewer
PriceInStock == <<"500", "INR">>
PriceOutOfStock == <<"Out", "OF", "stock">>
PriceTexts == {None, PriceInStock, PriceOutOfStock}
Links == {Link1, Link2}
\* a row of seller_catalog_links.csv: name, city, contact and catalogue_link
Row(name, city, catalogue_link) ==
  [name |-> name, city |-> city, contact |-> "1",
   catalogue_link |-> catalogue_link]
\* the seller lists a run can be started with: the rows in file order
RowLists ==
  LET r1 == Row("n1", "x", UrlC)
      r2 == Row("n2", "x", UrlBC)
  IN {<<r1>>, <<r2>>, <<r1, r2>>}
\* the seller lists of the runs of the sellers specification: a seller changes
\* its city or its name, a name moves to another catalogue
RowListsSellers ==
  LET r1 == Row("n1", "x", UrlC)
      r1y == Row("n1", "y", UrlC)
      r1n == Row("n2", "x", UrlC)
      r2 == Row("n2", "x", UrlBC)
  IN {<<r1>>, <<r1y>>, <<r1n>>, <<r2>>, <<r1, r2>>}
\* the seller list of the runs of the lifecycle specification
RowListsLong == {<<Row("n1", "x", UrlC)>>}

----------------------------------------------------------------------------
\* Identity resolver (scraper_json.py)

\* Python truthiness of an optional string
Falsy(x) == x = None \/ x = <<>>

\* f"{x}" : None is formatted as the text None
PyStr(x) == IF x = None THEN <<"N", "o", "n", "e">> ELSE x

\* url_to_id: md5 of the url, a fresh uuid4 when there is no url
url_to_id(url, fresh) ==
  IF Falsy(url) THEN <<"uuid4", fresh>> ELSE <<"md5", url>>

\* add_product: f"{product_data['title']}_{seller['catalogue_url']}"
fallback_key(title, catalogue_url) ==
  PyStr(title) \o <<"_">> \o PyStr(catalogue_url)

\* add_product: the id of a product
add_product_id(product_link, title, catalogue_url, fresh) ==
  IF ~Falsy(product_link)
  THEN url_to_id(product_link, fresh)
  ELSE url_to_id(fallback_key(title, catalogue_url), fresh)

----------------------------------------------------------------------------
VARIABLES
  pc,        \* "idle", "scrape", "import_job", "import_sellers", "import_products"
  run,       \* number of scraper runs started; the id of the last job
  session,   \* scrape_session of the running scraper
  rows,      \* CSV rows still to scrape in this run
  cur,       \* index in session.sellers of the seller being crawled, 0 if none
  file,      \* the saved snapshot file: <<>> or <<snapshot>>
  sjobs,     \* store: table scrape_jobs
  ssellers,  \* store: table sellers
  sproducts, \* store: table products
  uuids,     \* number of uuid4 values drawn so far
  pre,       \* the store as it was when the running/last import started
  imp,       \* progress and outcome of the imports of the saved file
  idLog,     \* calls of the identity functions with their results
  storage,   \* the image bucket: the files stored and the uploads made
  index,     \* the search index: its objects and the outcome of the last sync
  crawl,     \* the counters of the scraper: the loop of process_catalog_items
             \* over the catalogue of the current seller and total_items
  orch       \* the last run of the orchestrator main.py: its inputs and steps

vars == <<pc, run, session, rows, cur, file, sjobs, ssellers, sproducts,
          uuids, pre, imp, idLog, storage, index, crawl, orch>>

\* datetime.now(): the clock is at 1 before the first run and ticks with a run
Now == run + 1

----------------------------------------------------------------------------
\* Snapshot builder (scraper_json.py)

\* index of the first element of seq with the given id, 0 if there is none
IndexOfId(seq, id) ==
  IF \E i \in 1..Len(seq) : seq[i].id = id
  THEN CHOOSE i \in 1..Len(seq) :
         seq[i].id = id /\ \A j \in 1..(i - 1) : seq[j].id # id
  ELSE 0

\* the module-level scrape_session of a scraper process started as run number r
NewSession(r) ==
  [scrape_job |-> [id |-> r, status |-> "running", completed_at |-> NoTime,
                   total_items |-> 0, total_sellers |-> 0],
   sellers |-> <<>>,
   products |-> <<>>,
   obs |-> <<>>]

\* no scraper process is running
NoSession == NewSession(0)

\* get_or_create_seller: the sellers of the session after the call
get_or_create_seller(sellers, name, city, contact, catalogue_url, now, fresh) ==
  LET seller_id == url_to_id(catalogue_url, fresh)
  IN IF IndexOfId(sellers, seller_id) = 0
     THEN Append(sellers, [id |-> seller_id, name |-> name, city |-> city,
                           contact |-> contact,
                           catalogue_url |-> catalogue_url,
                           created_at |-> now, is_active |-> TRUE])
     ELSE sellers

\* add_product: the metadata of a new product has the keys catalogue_url,
\* seller_name, seller_city and seller_contact; of the keys import_products
\* reads from it, it has none
SellerMetadata == [photo_count |-> Missing, scraped_at |-> Missing]

\* add_product: the products of the session after the call
\* a variant that appends a product without looking its id up
add_product_always_appends(products, seller, product_data, job_id, now, fresh) ==
  LET product_id == add_product_id(product_data.product_link, product_data.title,
                                   seller.catalogue_url, fresh)
  IN Append(products,
            [id |-> product_id,
             seller_id |-> seller.id,
             scrape_job_id |-> job_id,
             title |-> product_data.title,
             images |-> <<>>,
             product_link |-> product_data.product_link,
             is_out_of_stock |-> product_data.is_out_of_stock,
             photo_count |-> product_data.photo_count,
             scraped_at |-> now,
             metadata |-> SellerMetadata,
             last_seen_scrape_job_id |-> job_id,
             is_removed |-> FALSE,
             removed_at |-> NoTime,
             created_at |-> now,
             updated_at |-> now])

add_product(products, seller, product_data, job_id, now, fresh) ==
  LET product_id == add_product_id(product_data.product_link, product_data.title,
                                   seller.catalogue_url, fresh)
      i == IndexOfId(products, product_id)
  IN IF i # 0
     THEN [products EXCEPT ![i] =
            [@ EXCEPT !.last_seen_scrape_job_id = job_id,
                      !.updated_at = now,
                      !.is_removed = FALSE,
                      !.removed_at = NoTime,
                      !.title = product_data.title,
                      !.is_out_of_stock = product_data.is_out_of_stock,
                      !.photo_count = product_data.photo_count,
                      !.product_link = IF ~Falsy(product_data.product_link)
                                       THEN product_data.product_link ELSE @]]
     ELSE Append(products,
            [id |-> product_id,
             seller_id |-> seller.id,
             scrape_job_id |-> job_id,
             title |-> product_data.title,
             images |-> <<>>,
             product_link |-> product_data.product_link,
             is_out_of_stock |-> product_data.is_out_of_stock,
             photo_count |-> product_data.photo_count,
             scraped_at |-> now,
             metadata |-> SellerMetadata,
             last_seen_scrape_job_id |-> job_id,
             is_removed |-> FALSE,
             removed_at |-> NoTime,
             created_at |-> now,
             updated_at |-> now])

\* add_product returns the product it created or updated: its index
add_product_ref(products, seller, product_data, fresh) ==
  LET product_id == add_product_id(product_data.product_link, product_data.title,
                                   seller.catalogue_url, fresh)
      i == IndexOfId(products, product_id)
  IN IF i # 0 THEN i ELSE Len(products) + 1

\* what the detail page of an item shows of its photos: whether the photo
\* container appears before the wait times out, and for every image element
\* whether its fetch and its upload work
NoContainer == [container |-> FALSE, imgs |-> <<>>]
ImageOutcomes == {"ok", "fetch_failed", "upload_failed"}
Photos ==
  {NoContainer}
    \cup {[container |-> TRUE, imgs |-> <<a>>] : a \in ImageOutcomes}
    \cup {[container |-> TRUE, imgs |-> <<a, b>>] : a, b \in ImageOutcomes}

\* save_product_images: seller_dir/product_dir, the directory of a product
base_path(product) == <<product.seller_id, product.id>>

\* the public URLs of the files of path with the serial numbers in snos, sorted
image_urls_of(path, snos) ==
  [k \in 1..Cardinality(snos) |->
     <<path, CHOOSE i \in snos : Cardinality({j \in snos : j < i}) = k - 1>>]

\* the serial numbers of the files the bucket has in the directory path
stored_files(st, path) == {f[2] : f \in {f \in st.files : f[1] = path}}

\* save_product_images: [images, storage], the URLs returned and the bucket
\* after the call
\* a variant that gives up at the first image that fails
save_product_images_until_failure(st, product, imgs) ==
  LET path == base_path(product)
      existing_files == stored_files(st, path)
      uploaded == {i \in 1..Len(imgs) : \A j \in 1..i : imgs[j] = "ok"}
  IN IF product.images # <<>>
     THEN [images |-> product.images, storage |-> st]
     ELSE IF imgs = <<>>
     THEN [images |-> <<>>, storage |-> st]
     ELSE IF existing_files # {}
     THEN [images |-> image_urls_of(path, existing_files), storage |-> st]
     ELSE [images |-> image_urls_of(path, uploaded),
           storage |-> [files |-> st.files \cup {<<path, i>> : i \in uploaded},
                        uploads |-> st.uploads + Cardinality(uploaded)]]

save_product_images(st, product, imgs) ==
  LET path == base_path(product)
      existing_files == stored_files(st, path)
      uploaded == {i \in 1..Len(imgs) : imgs[i] = "ok"}
  IN IF product.images # <<>>
     THEN [images |-> product.images, storage |-> st]
     ELSE IF imgs = <<>>
     THEN [images |-> <<>>, storage |-> st]
     ELSE IF existing_files # {}
     THEN [images |-> image_urls_of(path, existing_files), storage |-> st]
     ELSE [images |-> image_urls_of(path, uploaded),
           storage |-> [files |-> st.files \cup {<<path, i>> : i \in uploaded},
                        uploads |-> st.uploads + Cardinality(uploaded)]]

\* str.lower() of a word
LowerWord(w) ==
  CASE w = "Out" -> "out"
    [] w = "OF" -> "of"
    [] w = "INR" -> "inr"
    [] OTHER -> w

\* str.lower() of a text
lower(text) == [i \in 1..Len(text) |-> LowerWord(text[i])]

\* sub in text
Contains(text, sub) ==
  \E k \in 0..(Len(text) - Len(sub)) : \A i \in 1..Len(sub) : text[k + i] = sub[i]

\* process_catalog_items:
\* "out of stock" in price_text.lower() if price_text else False
is_out_of_stock(price_text) ==
  IF ~Falsy(price_text)
  THEN Contains(lower(price_text), <<"out", "of", "stock">>)
  ELSE FALSE

\* process_catalog_items, one matching item whose detail page was read: an
\* item out of stock is left out; for any other, add_product is called with
\* product_link None; its images are saved, or set to the empty list when
\* the photo container times out; then the link found on the detail page
\* (None when the link button times out) is stored in the returned product.
\* The result is [products, storage, added]; added tells whether add_product
\* was called.
\* a variant that does not leave the items out of stock out
process_detail_keeps_out_of_stock(products, st, seller, detail, job_id, now, fresh) ==
  LET product_data == [title |-> detail.title, product_link |-> None,
                       photo_count |-> IF detail.photos.container
                                       THEN Len(detail.photos.imgs) ELSE 0,
                       is_out_of_stock |-> is_out_of_stock(detail.price_text)]
      added == add_product(products, seller, product_data, job_id, now, fresh)
      ref == add_product_ref(products, seller, product_data, fresh)
      saved == IF detail.photos.container
               THEN save_product_images(st, added[ref], detail.photos.imgs)
               ELSE [images |-> <<>>, storage |-> st]
      with_images == [added EXCEPT ![ref].images = saved.images]
  IN [products |-> IF detail.product_link # None
                   THEN [with_images EXCEPT
                           ![ref].product_link = detail.product_link]
                   ELSE with_images,
      storage |-> saved.storage,
      added |-> TRUE]

process_detail(products, st, seller, detail, job_id, now, fresh) ==
  LET product_data == [title |-> detail.title, product_link |-> None,
                       photo_count |-> IF detail.photos.container
                                       THEN Len(detail.photos.imgs) ELSE 0,
                       is_out_of_stock |-> is_out_of_stock(detail.price_text)]
      added == add_product(products, seller, product_data, job_id, now, fresh)
      ref == add_product_ref(products, seller, product_data, fresh)
      saved == IF detail.photos.container
               THEN save_product_images(st, added[ref], detail.photos.imgs)
               ELSE [images |-> <<>>, storage |-> st]
      with_images == [added EXCEPT ![ref].images = saved.images]
  IN IF is_out_of_stock(detail.price_text)
     THEN [products |-> products, storage |-> st, added |-> FALSE]
     ELSE [products |-> IF detail.product_link # None
                        THEN [with_images EXCEPT
                                ![ref].product_link = detail.product_link]
                        ELSE with_images,
           storage |-> saved.storage,
           added |-> TRUE]

\* process_catalog_items, one in-stock matching item whose detail page has no
\* price text. The result is [products, storage, added].
process_item(products, st, seller, title, link, photos, job_id, now, fresh) ==
  process_detail(products, st, seller,
                 [title |-> title, price_text |-> None, product_link |-> link,
                  photos |-> photos],
                 job_id, now, fresh)

----------------------------------------------------------------------------
\* The store and the bookkeeping of the imports

EmptyStore == [jobs |-> {}, sellers |-> {}, products |-> {}]

\* no import of the saved file has run yet
NoImport == [n |-> 0, outcomes |-> <<>>, result |-> <<>>]

Store == [jobs |-> sjobs, sellers |-> ssellers, products |-> sproducts]

\* the image bucket before any upload: files are <<path, serial number>>
EmptyStorage == [files |-> {}, uploads |-> 0]

\* the counters of a scraper process before its first seller: index,
\* items_scraped, the number of iterations of the loop of
\* process_catalog_items and the number of items it found out of stock,
\* total_items of the main block, and the number of rows whose crawl failed
NoCrawl == [index |-> 0, items_scraped |-> 0, iterations |-> 0,
            out_of_stock |-> 0, total_items |-> 0, failed_rows |-> 0]

\* main.py has not run
NoMain == [ran |-> FALSE, sellers |-> 0, driver_ok |-> FALSE, login_ok |-> FALSE,
           rows_ok |-> FALSE, steps |-> <<>>, scraped |-> FALSE,
           result |-> FALSE]

\* the search index before any sync: the objectIDs it holds, the outcome of
\* the last sync and the number of the product that made it fail (0: none)
EmptyIndex == [objects |-> {}, result |-> "none", failed |-> 0]

----------------------------------------------------------------------------
\* a scraper process starts: the module is loaded and the CSV file is read.
\* The file of the run before stays on disk until Finalize overwrites it; no
\* import starts while the scraper runs, so the model forgets it here, with
\* the bookkeeping of its imports.
StartRun(maxRuns, rowLists) ==
  /\ pc = "idle"
  /\ run < maxRuns
  /\ \E rl \in rowLists : rows' = rl
  /\ run' = run + 1
  /\ session' = NewSession(run + 1)
  /\ cur' = 0
  /\ pc' = "scrape"
  /\ file' = <<>>
  /\ pre' = EmptyStore
  /\ imp' = NoImport
  /\ crawl' = NoCrawl
  /\ UNCHANGED <<sjobs, ssellers, sproducts, uuids, idLog, storage, index, orch>>

\* scrape_row up to the call of process_catalog_items
ScrapeRow ==
  /\ pc = "scrape"
  /\ cur = 0
  /\ rows # <<>>
  /\ LET row == Head(rows)
         sellers == get_or_create_seller(session.sellers, row.name, row.city,
                                         row.contact, row.catalogue_link,
                                         Now, uuids)
     IN /\ session' = [session EXCEPT !.sellers = sellers]
        /\ cur' = IndexOfId(sellers, url_to_id(row.catalogue_link, uuids))
  /\ crawl' = [NoCrawl EXCEPT !.total_items = crawl.total_items,
                              !.failed_rows = crawl.failed_rows]
  /\ UNCHANGED <<pc, run, rows, file, sjobs, ssellers, sproducts, uuids, pre,
                 imp, idLog, storage, index, orch>>

\* the images a product of the snapshot has, <<>> when it is not there
images_of(products, id) ==
  IF IndexOfId(products, id) = 0 THEN <<>>
  ELSE products[IndexOfId(products, id)].images

\* process_catalog_items: one item is scraped and added to the snapshot; the
\* observation is logged with the images the product had and the files its
\* directory had before it, and the number of uploads it made
ProcessItem(maxObs, photo_outcomes) ==
  /\ pc = "scrape"
  /\ cur # 0
  /\ Len(session.obs) < maxObs
  /\ \E title \in Titles, link \in Links \cup {None}, photos \in photo_outcomes :
       LET seller == session.sellers[cur]
           r == process_item(session.products, storage, seller, title, link,
                             photos, session.scrape_job.id, Now, uuids)
           id == add_product_id(None, title, seller.catalogue_url, uuids)
           path == base_path([seller_id |-> seller.id, id |-> id])
       IN /\ session' = [session EXCEPT
               !.products = r.products,
               !.obs = Append(@, [seller_id |-> seller.id, title |-> title,
                                  product_link |-> link, photos |-> photos,
                                  price_text |-> None,
                                  id |-> id,
                                  had_images |-> images_of(session.products, id),
                                  had_files |-> stored_files(storage, path),
                                  uploads |-> r.storage.uploads - storage.uploads])]
          /\ storage' = r.storage
  /\ crawl' = [crawl EXCEPT !.index = @ + 1, !.items_scraped = @ + 1,
                            !.iterations = @ + 1]
  /\ UNCHANGED <<pc, run, rows, cur, file, sjobs, ssellers, sproducts, uuids,
                 pre, imp, idLog, index, orch>>

\* process_catalog_items returns (no more items load) and scrape_row ends
EndRow ==
  /\ pc = "scrape"
  /\ cur # 0
  /\ cur' = 0
  /\ rows' = Tail(rows)
  /\ crawl' = [NoCrawl EXCEPT
                 !.total_items = crawl.total_items + crawl.items_scraped,
                 !.failed_rows = crawl.failed_rows]
  /\ UNCHANGED <<pc, run, session, file, sjobs, ssellers, sproducts, uuids,
                 pre, imp, idLog, storage, index, orch>>

\* what the browser does in one iteration of the loop of
\* process_catalog_items: the item is not iPhone related; an element is stale;
\* another error is raised before the detail page is read; the detail page
\* is read and left; the detail page is read and the last click on the back
\* button times out
BrowserOutcomes == {"filtered", "stale", "error", "opened", "back_failed"}

\* process_catalog_items: one iteration of the loop, on the item at index
CatalogStep(maxItems, maxIterations) ==
  /\ pc = "scrape"
  /\ cur # 0
  /\ crawl.index < maxItems
  /\ crawl.iterations < maxIterations
  /\ \E outcome \in BrowserOutcomes, title \in Titles,
        price_text \in PriceTexts, link \in {None, Link1} :
       LET seller == session.sellers[cur]
           detail == [title |-> title, price_text |-> price_text,
                      product_link |-> link, photos |-> NoContainer]
           r == IF outcome \in {"opened", "back_failed"}
                THEN process_detail(session.products, storage, seller, detail,
                                    session.scrape_job.id, Now, uuids)
                ELSE [products |-> session.products, storage |-> storage,
                      added |-> FALSE]
           id == add_product_id(None, title, seller.catalogue_url, uuids)
           path == base_path([seller_id |-> seller.id, id |-> id])
       IN /\ session' = [session EXCEPT
               !.products = r.products,
               !.obs = IF r.added
                       THEN Append(@, [seller_id |-> seller.id, title |-> title,
                                       product_link |-> link,
                                       photos |-> NoContainer,
                                       price_text |-> price_text,
                                       id |-> id,
                                       had_images |-> images_of(session.products, id),
                                       had_files |-> stored_files(storage, path),
                                       uploads |-> 0])
                       ELSE @]
          /\ storage' = r.storage
          \* except StaleElementReferenceException: continue
          /\ crawl' = [crawl EXCEPT
               !.index = IF outcome = "stale" THEN @ ELSE @ + 1,
               !.items_scraped = IF outcome = "opened" /\ r.added
                                 THEN @ + 1 ELSE @,
               !.out_of_stock = IF /\ outcome \in {"opened", "back_failed"}
                                   /\ is_out_of_stock(price_text)
                                THEN @ + 1 ELSE @,
               !.iterations = @ + 1]
  /\ UNCHANGED <<pc, run, rows, cur, file, sjobs, ssellers, sproducts, uuids,
                 pre, imp, idLog, index, orch>>

\* scrape_row: the catalogue does not open, or an error leaves
\* process_catalog_items; the except clause sets count to 0
FailRow ==
  /\ pc = "scrape"
  /\ cur # 0
  /\ cur' = 0
  /\ rows' = Tail(rows)
  /\ crawl' = [NoCrawl EXCEPT !.total_items = crawl.total_items,
                              !.failed_rows = crawl.failed_rows + 1]
  /\ UNCHANGED <<pc, run, session, file, sjobs, ssellers, sproducts, uuids,
                 pre, imp, idLog, storage, index, orch>>

\* the main block: an error is raised outside the try of scrape_row (a column
\* the CSV file lacks, driver.quit); the except clause prints it and the
\* process exits without writing the file
AbortRun ==
  /\ pc = "scrape"
  /\ cur = 0
  /\ pc' = "idle"
  /\ session' = NoSession
  /\ rows' = <<>>
  /\ crawl' = NoCrawl
  /\ UNCHANGED <<run, cur, file, sjobs, ssellers, sproducts, uuids, pre, imp,
                 idLog, storage, index, orch>>

\* the main block after the loop: the job is finalized and the file is written
Finalize ==
  /\ pc = "scrape"
  /\ cur = 0
  /\ rows = <<>>
  /\ file' = << [session EXCEPT
                   !.scrape_job.status = "completed",
                   !.scrape_job.completed_at = Now,
                   !.scrape_job.total_items = crawl.total_items,
                   !.scrape_job.total_sellers = Len(session.sellers)] >>
  /\ session' = NoSession
  /\ crawl' = [NoCrawl EXCEPT !.failed_rows = crawl.failed_rows]
  /\ pc' = "idle"
  /\ UNCHANGED <<run, rows, cur, sjobs, ssellers, sproducts, uuids, pre, imp,
                 idLog, storage, index, orch>>

----------------------------------------------------------------------------
\* Reconciliation (import_to_supabase.py)

\* import_scrape_job: INSERT ... ON CONFLICT (id) DO UPDATE
upsert_scrape_job(jobs, scrape_job) ==
  {j \in jobs : j.id # scrape_job.id} \cup {scrape_job}

\* import_sellers, one seller: INSERT ... ON CONFLICT (id) DO UPDATE on a table
\* whose column name is unique (load_sellers_to_db.py: ON CONFLICT (name)).
\* The result is [ok, rows]; ok is FALSE when the statement raises.
\* a variant that replaces the whole row, created_at included
upsert_seller_replaces_row(sellers, seller) ==
  LET same_id == {r \in sellers : r.id = seller.id}
      name_taken == \E r \in sellers : r.id # seller.id /\ r.name = seller.name
  IN IF name_taken
     THEN [ok |-> FALSE, rows |-> sellers]
     ELSE [ok |-> TRUE, rows |-> (sellers \ same_id) \cup {seller}]

upsert_seller(sellers, seller) ==
  LET same_id == {r \in sellers : r.id = seller.id}
      name_taken == \E r \in sellers : r.id # seller.id /\ r.name = seller.name
      updated == {[r EXCEPT !.name = seller.name,
                            !.city = seller.city,
                            !.contact = seller.contact,
                            !.catalogue_url = seller.catalogue_url,
                            !.is_active = seller.is_active] : r \in same_id}
  IN IF name_taken
     THEN [ok |-> FALSE, rows |-> sellers]
     ELSE IF same_id # {}
          THEN [ok |-> TRUE, rows |-> (sellers \ same_id) \cup updated]
          ELSE [ok |-> TRUE, rows |-> sellers \cup {seller}]

\* import_sellers: the loop over sellers_data.items(), from seller number i on
RECURSIVE import_sellers_from(_, _, _)
import_sellers_from(sellers, sellers_data, i) ==
  IF i > Len(sellers_data)
  THEN [ok |-> TRUE, rows |-> sellers]
  ELSE LET r == upsert_seller(sellers, sellers_data[i])
       IN IF r.ok
          THEN import_sellers_from(r.rows, sellers_data, i + 1)
          ELSE [ok |-> FALSE, rows |-> sellers]

\* import_sellers: [ok, rows]; a failure rolls every seller of the call back
import_sellers(sellers, sellers_data) ==
  LET r == import_sellers_from(sellers, sellers_data, 1)
  IN IF r.ok THEN r ELSE [ok |-> FALSE, rows |-> sellers]

\* import_products step 1: the products that have a product_link (indexes)
products_with_link(products_data) ==
  {i \in 1..Len(products_data) : ~Falsy(products_data[i].product_link)}

products_without_link(products_data) ==
  {i \in 1..Len(products_data) : Falsy(products_data[i].product_link)}

\* import_products step 2: {p['product_link']: p for p in products_with_link},
\* the last product of every link
unique_products_with_link(products_data) ==
  {products_data[i] : i \in
     {i \in products_with_link(products_data) :
        \A j \in products_with_link(products_data) :
          products_data[j].product_link = products_data[i].product_link => j <= i}}

\* import_products step 3: SELECT product_link, id FROM products WHERE
\* product_link IN links; the links found
existing_products_map(products, unique) ==
  {r.product_link : r \in {r \in products :
      \E p \in unique : p.product_link = r.product_link}}

\* the id the store has for a link (p['id'] = existing_products_map[link])
existing_id(products, link) ==
  (CHOOSE r \in products : r.product_link = link).id

\* import_products step 4: the products whose link the store has are updated
update_path(products, products_data) ==
  LET unique == unique_products_with_link(products_data)
  IN {p \in unique : p.product_link \in existing_products_map(products, unique)}

\* import_products step 4: the products whose link the store does not have and
\* the products without a link are inserted
insert_path(products, products_data) ==
  LET unique == unique_products_with_link(products_data)
  IN {p \in unique : p.product_link \notin existing_products_map(products, unique)}
       \cup {products_data[i] : i \in products_without_link(products_data)}

\* import_products steps 7: seller_ids and current_product_links
\* a variant that diffs the whole table: the sellers of every stored product
lifecycle_seller_ids_all(products_data) ==
  {products_data[i].seller_id : i \in 1..Len(products_data)}
    \cup {r.seller_id : r \in sproducts}

lifecycle_seller_ids(products_data) ==
  {products_data[i].seller_id : i \in 1..Len(products_data)}

\* a variant that takes the link of the first product only
current_product_links_first(products_data) ==
  {products_data[i].product_link :
     i \in {j \in products_with_link(products_data) : j = 1}}

current_product_links(products_data) ==
  {products_data[i].product_link : i \in products_with_link(products_data)}

\* SQL function mark_missing_products_as_removed(seller_ids, job_id, links):
\* the products of these sellers that have a link, are not in links and are
\* not removed yet become removed at now
mark_missing_products_as_removed(products, seller_ids, job_id, links, now) ==
  {IF /\ r.seller_id \in seller_ids
      /\ r.product_link # None
      /\ r.product_link \notin links
      /\ ~r.is_removed
   THEN [r EXCEPT !.is_removed = TRUE, !.removed_at = now]
   ELSE r : r \in products}

\* SQL function mark_reappeared_products_as_active(job_id, links): the removed
\* products whose link is in links become active again
mark_reappeared_products_as_active(products, job_id, links) ==
  {IF r.is_removed /\ r.product_link \in links
   THEN [r EXCEPT !.is_removed = FALSE, !.removed_at = NoTime]
   ELSE r : r \in products}

\* import_products step 6: UPDATE products SET ... FROM data, one row r
\* updated from the product p of the snapshot
\* a variant that leaves last_seen_scrape_job_id as it is in the store
update_product_keeps_last_seen(r, p) ==
  [r EXCEPT !.title = p.title,
            !.images = p.images,
            !.is_out_of_stock = p.is_out_of_stock,
            !.photo_count = p.photo_count,
            !.scraped_at = p.scraped_at,
            !.is_removed = p.is_removed,
            !.removed_at = p.removed_at,
            !.updated_at = p.updated_at,
            !.scrape_job_id = p.scrape_job_id,
            !.seller_id = p.seller_id]

\* a variant that leaves removed_at as it is in the store
update_product_keeps_removed_at(r, p) ==
  [r EXCEPT !.title = p.title,
            !.images = p.images,
            !.is_out_of_stock = p.is_out_of_stock,
            !.photo_count = p.photo_count,
            !.scraped_at = p.scraped_at,
            !.last_seen_scrape_job_id = p.last_seen_scrape_job_id,
            !.is_removed = p.is_removed,
            !.updated_at = p.updated_at,
            !.scrape_job_id = p.scrape_job_id,
            !.seller_id = p.seller_id]

update_product(r, p) ==
  [r EXCEPT !.title = p.title,
            !.images = p.images,
            !.is_out_of_stock = p.is_out_of_stock,
            !.photo_count = p.photo_count,
            !.scraped_at = p.scraped_at,
            !.last_seen_scrape_job_id = p.last_seen_scrape_job_id,
            !.is_removed = p.is_removed,
            !.removed_at = p.removed_at,
            !.updated_at = p.updated_at,
            !.scrape_job_id = p.scrape_job_id,
            !.seller_id = p.seller_id]

\* dict.get(key, default) on the metadata of a product
metadata_get(p, key, default) ==
  IF p.metadata[key] = Missing THEN default ELSE p.metadata[key]

\* import_products, the pre-processing of one product: photo_count and
\* scraped_at are read from its metadata, last_seen is the job of the file
pre_process(p, current_scrape_job_id) ==
  [p EXCEPT !.photo_count = metadata_get(p, "photo_count", 0),
            !.scraped_at = metadata_get(p, "scraped_at", NoTime),
            !.last_seen_scrape_job_id = current_scrape_job_id]

\* number of rows of before that differ in after (rows are matched by id)
changed_rows(before, after) == Cardinality(before \ after)

\* import_products: [ok, rows, inserted, updated, removed, reactivated]
import_products(products, products_data, now, db_error) ==
  LET failed == [ok |-> FALSE, rows |-> products, inserted |-> 0, updated |-> 0,
                 removed |-> 0, reactivated |-> 0]
  IN
  IF products_data = <<>>
  THEN [ok |-> TRUE, rows |-> products, inserted |-> 0, updated |-> 0,
        removed |-> 0, reactivated |-> 0]
  ELSE
  LET current_scrape_job_id == products_data[1].scrape_job_id
      data == [i \in 1..Len(products_data) |->
                 pre_process(products_data[i], current_scrape_job_id)]
      unique == unique_products_with_link(data)
      existing == existing_products_map(products, unique)
      to_update == update_path(products, data)
      to_insert == insert_path(products, data)
      \* INSERT INTO products: id is the primary key
      pk_violation ==
        \/ \E p \in to_insert : \E r \in products : r.id = p.id
        \/ \E p, q \in to_insert : p # q /\ p.id = q.id
      \* p['id'], p['title'] in insert_values and update_values: KeyError
      key_error ==
        \/ \E p \in to_insert : p.id = Missing \/ p.title = Missing
        \/ \E p \in to_update : p.title = Missing
      inserted == products \cup to_insert
      \* UPDATE products ... WHERE p.id = data.id
      updated ==
        {IF \E p \in to_update : existing_id(products, p.product_link) = r.id
         THEN LET p == CHOOSE p \in to_update :
                         existing_id(products, p.product_link) = r.id
              IN update_product(r, p)
         ELSE r : r \in inserted}
      seller_ids == lifecycle_seller_ids(data)
      links == current_product_links(data)
      lifecycle == seller_ids # {} /\ links # {}
      marked == IF lifecycle
                THEN mark_missing_products_as_removed(updated, seller_ids,
                       current_scrape_job_id, links, now)
                ELSE updated
      reactivated == IF lifecycle
                     THEN mark_reappeared_products_as_active(marked,
                            current_scrape_job_id, links)
                     ELSE marked
  IN IF db_error \/ key_error \/ pk_violation
     THEN failed
     ELSE [ok |-> TRUE, rows |-> reactivated,
           inserted |-> Cardinality(to_insert),
           updated |-> Cardinality(to_update),
           removed |-> changed_rows(updated, marked),
           reactivated |-> changed_rows(marked, reactivated)]

\* import_to_supabase.py is started on the saved file
StartImport(maxImports) ==
  /\ pc = "idle"
  /\ file # <<>>
  /\ imp.n < maxImports
  /\ pc' = "import_job"
  /\ pre' = Store
  /\ imp' = [imp EXCEPT !.n = @ + 1, !.result = <<>>]
  /\ UNCHANGED <<run, session, rows, cur, file, sjobs, ssellers, sproducts,
                 uuids, idLog, storage, index, crawl, orch>>

\* db_errors are the outcomes of the database the environment may produce: TRUE
\* is an error raised by the connection (cursor.execute or commit raises)

\* main: import_scrape_job commits the job, or fails and the process exits
ImportScrapeJob(db_errors) ==
  /\ pc = "import_job"
  /\ \E db_error \in db_errors :
       IF db_error
       THEN /\ pc' = "idle"
            /\ imp' = [imp EXCEPT !.outcomes = Append(@, "job_db")]
            /\ UNCHANGED sjobs
       ELSE /\ pc' = "import_sellers"
            /\ sjobs' = upsert_scrape_job(sjobs, file[1].scrape_job)
            /\ UNCHANGED imp
  /\ UNCHANGED <<run, session, rows, cur, file, ssellers, sproducts, uuids,
                 pre, idLog, storage, index, crawl, orch>>

\* main: import_sellers commits the sellers, or rolls back and the process exits
\* a variant that goes on to the products when import_sellers fails
ImportSellers_goes_on(db_errors) ==
  /\ pc = "import_sellers"
  /\ \E db_error \in db_errors :
       LET r == import_sellers(ssellers, file[1].sellers)
       IN IF db_error \/ ~r.ok
          THEN /\ pc' = "import_products"
               /\ UNCHANGED imp
               /\ UNCHANGED ssellers
          ELSE /\ pc' = "import_products"
               /\ ssellers' = r.rows
               /\ UNCHANGED imp
  /\ UNCHANGED <<run, session, rows, cur, file, sjobs, sproducts, uuids, pre,
                 idLog, storage, index, crawl, orch>>

ImportSellers(db_errors) ==
  /\ pc = "import_sellers"
  /\ \E db_error \in db_errors :
       LET r == import_sellers(ssellers, file[1].sellers)
       IN IF db_error \/ ~r.ok
          THEN /\ pc' = "idle"
               /\ imp' = [imp EXCEPT !.outcomes =
                            Append(@, IF db_error THEN "sellers_db" ELSE "sellers")]
               /\ UNCHANGED ssellers
          ELSE /\ pc' = "import_products"
               /\ ssellers' = r.rows
               /\ UNCHANGED imp
  /\ UNCHANGED <<run, session, rows, cur, file, sjobs, sproducts, uuids, pre,
                 idLog, storage, index, crawl, orch>>

\* main: import_products commits the products and their lifecycle, or rolls back
ImportProducts(db_errors) ==
  /\ pc = "import_products"
  /\ \E db_error \in db_errors :
       LET r == import_products(sproducts, file[1].products, Now, db_error)
       IN /\ sproducts' = r.rows
          /\ imp' = [imp EXCEPT
               !.outcomes = Append(@, IF r.ok THEN "ok"
                                      ELSE IF db_error THEN "products_db"
                                      ELSE "products"),
               !.result = IF r.ok
                          THEN << [inserted |-> r.inserted, updated |-> r.updated,
                                   removed |-> r.removed,
                                   reactivated |-> r.reactivated] >>
                          ELSE <<>>]
  /\ pc' = "idle"
  /\ UNCHANGED <<run, session, rows, cur, file, sjobs, ssellers, uuids, pre,
                 idLog, storage, index, crawl, orch>>

----------------------------------------------------------------------------
\* Snapshot files that were not written by the scraper

\* the products a snapshot file of job job_id can list for the seller: every
\* one may lack its id or its title, and may have a link
FileProducts(seller, job_id, now) ==
  {[id |-> id, seller_id |-> seller.id, scrape_job_id |-> job_id,
    title |-> title, images |-> <<>>, product_link |-> link,
    is_out_of_stock |-> FALSE, photo_count |-> 0, scraped_at |-> now,
    metadata |-> SellerMetadata,
    last_seen_scrape_job_id |-> job_id, is_removed |-> FALSE,
    removed_at |-> NoTime, created_at |-> now, updated_at |-> now] :
     id \in {Missing, add_product_id(None, TitleA, seller.catalogue_url, 0)},
     title \in {Missing, TitleA},
     link \in {None, Link1}}

\* import_to_supabase.py main: json_file = sys.argv[1] is any file; here a
\* file with a completed job, one seller and up to MaxFileProducts products
ReceiveSnapshot ==
  /\ pc = "idle"
  /\ run < MaxFiles
  /\ run' = run + 1
  /\ LET sellers == get_or_create_seller(<<>>, "n1", "x", "1", UrlC, Now, uuids)
         job == [NewSession(run + 1).scrape_job EXCEPT
                   !.status = "completed", !.completed_at = Now,
                   !.total_sellers = 1]
     IN \E n \in 1..MaxFileProducts :
          \E products \in [1..n -> FileProducts(sellers[1], run + 1, Now)] :
            file' = << [scrape_job |-> [job EXCEPT !.total_items = n],
                        sellers |-> sellers,
                        products |-> products,
                        obs |-> <<>>] >>
  /\ pre' = EmptyStore
  /\ imp' = NoImport
  /\ UNCHANGED <<pc, session, rows, cur, sjobs, ssellers, sproducts, uuids,
                 idLog, storage, index, crawl, orch>>

----------------------------------------------------------------------------
\* Seller loader (load_sellers_to_db.py)

\* load_sellers_from_csv, one row: INSERT with a fresh uuid4 as id
\* ON CONFLICT (name) DO UPDATE
load_seller_row(sellers, row, now, fresh) ==
  LET same_name == {r \in sellers : r.name = row.name}
  IN IF same_name # {}
     THEN (sellers \ same_name) \cup
            {[r EXCEPT !.city = row.city,
                       !.contact = row.contact,
                       !.catalogue_url = row.catalogue_link,
                       !.is_active = TRUE] : r \in same_name}
     ELSE sellers \cup {[id |-> <<"uuid4", fresh>>, name |-> row.name,
                         city |-> row.city, contact |-> row.contact,
                         catalogue_url |-> row.catalogue_link,
                         created_at |-> now, is_active |-> TRUE]}

\* load_sellers_from_csv: the loop over the rows, from row number i on
RECURSIVE load_sellers_from(_, _, _, _, _)
load_sellers_from(sellers, csv, i, now, fresh) ==
  IF i > Len(csv)
  THEN sellers
  ELSE load_sellers_from(load_seller_row(sellers, csv[i], now, fresh + i - 1),
                         csv, i + 1, now, fresh)

\* load_sellers_to_db.py is run on a CSV file
LoadSellersCsv ==
  /\ pc = "idle"
  /\ \E csv \in RowLists :
       /\ uuids + Len(csv) <= MaxUuid
       /\ ssellers' = load_sellers_from(ssellers, csv, 1, Now, uuids)
       /\ uuids' = uuids + Len(csv)
  /\ imp' = [imp EXCEPT !.outcomes = IF @ = <<>> THEN @ ELSE Append(@, "csv")]
  /\ UNCHANGED <<pc, run, session, rows, cur, file, sjobs, sproducts, pre,
                 idLog, storage, index, crawl, orch>>

----------------------------------------------------------------------------
\* Search index sync (algolia_indexer.py)

\* index_to_algolia: products are sent in batches of batch_size
batch_size == 100

\* the batch a product is sent in, by its position in data['products']
batch_of(i) == (i - 1) \div batch_size

\* index_to_algolia(json_file, clear_index=True): the index after the call.
\* failed is the position of a product whose batch the service refuses
\* (save_objects raises), 0 when every batch is accepted.
index_to_algolia(products, failed) ==
  LET algolia_products == [i \in 1..Len(products) |-> products[i].id]
      saved == {i \in 1..Len(products) :
                  failed = 0 \/ batch_of(i) < batch_of(failed)}
  IN [objects |-> {algolia_products[i] : i \in saved},
      result |-> IF failed = 0 THEN "ok" ELSE "failed",
      failed |-> failed]

\* algolia_indexer.py is run on the saved file (main.py runs the same function
\* after the import)
IndexToAlgolia ==
  /\ pc = "idle"
  /\ file # <<>>
  /\ \E failed \in 0..Len(file[1].products) :
       index' = index_to_algolia(file[1].products, failed)
  /\ UNCHANGED <<pc, run, session, rows, cur, file, sjobs, ssellers, sproducts,
                 uuids, pre, imp, idLog, storage, crawl, orch>>

----------------------------------------------------------------------------
\* Calls of the identity functions, logged with their inputs and results

IdUrls == {None, <<>>, UrlC, UrlBC}
IdTitles == {None, TitleA, TitleAB}
IdLinks == {None, <<>>, Link1}

\* get_or_create_seller computes the id of a seller
IdSeller ==
  /\ Cardinality(idLog) < MaxIdCalls
  /\ \E url \in IdUrls :
       /\ idLog' = idLog \cup {[fn |-> "seller", product_link |-> None,
                                title |-> None, catalogue_url |-> url,
                                id |-> url_to_id(url, uuids)]}
       /\ uuids' = IF Falsy(url) THEN uuids + 1 ELSE uuids
  /\ UNCHANGED <<pc, run, session, rows, cur, file, sjobs, ssellers, sproducts,
                 pre, imp, storage, index, crawl, orch>>

\* add_product computes the id of a product
IdProduct ==
  /\ Cardinality(idLog) < MaxIdCalls
  /\ \E link \in IdLinks, title \in IdTitles, url \in IdUrls :
       idLog' = idLog \cup {[fn |-> "product", product_link |-> link,
                             title |-> title, catalogue_url |-> url,
                             id |-> add_product_id(link, title, url, uuids)]}
  /\ UNCHANGED <<pc, run, session, rows, cur, file, sjobs, ssellers, sproducts,
                 uuids, pre, imp, storage, index, crawl, orch>>

\* get_or_create_seller is called by the code of a running scraper with any
\* name, city and catalogue_url, an empty or missing url included
ObserveSeller ==
  /\ pc = "scrape"
  /\ cur = 0
  /\ \E name \in {"n1", "n2"}, city \in {"x", "y"}, url \in IdUrls :
       /\ Falsy(url) => uuids < MaxUuid
       /\ session' = [session EXCEPT !.sellers =
                        get_or_create_seller(@, name, city, "1", url, Now, uuids)]
       /\ uuids' = IF Falsy(url) THEN uuids + 1 ELSE uuids
  /\ UNCHANGED <<pc, run, rows, cur, file, sjobs, ssellers, sproducts, pre,
                 imp, idLog, storage, index, crawl, orch>>

----------------------------------------------------------------------------
\* Orchestrator (main.py)

\* def scrape_row(driver, row, index, supabase_client): its parameters
scrape_row_parameters == 4
\* run_scraper: scrape_row(driver, row, i), the arguments of the call
run_scraper_arguments == 3

\* run_scraper: TRUE when it returns True. sellers is the number of rows of
\* the temporary CSV file; rows_ok tells that no row raises an error that
\* scrape_row does not catch. A call with the wrong number of arguments
\* raises TypeError, which the except clause of run_scraper turns into False.
run_scraper(sellers, driver_ok, login_ok, rows_ok) ==
  IF ~driver_ok THEN FALSE
  ELSE IF ~login_ok THEN FALSE
  ELSE IF sellers > 0 /\ run_scraper_arguments # scrape_row_parameters
  THEN FALSE
  ELSE rows_ok

\* main: the steps it runs, in their order; the index step does not stop it
main_steps(sellers, driver_ok, login_ok, rows_ok, import_ok) ==
  IF sellers = 0 THEN <<"load">>
  ELSE IF ~run_scraper(sellers, driver_ok, login_ok, rows_ok)
  THEN <<"load", "csv", "scrape">>
  ELSE IF ~import_ok THEN <<"load", "csv", "scrape", "import">>
  ELSE <<"load", "csv", "scrape", "import", "index">>

\* main.py is run: load_active_sellers_from_db reads the active sellers of
\* the store, then the steps follow. The steps after the scrape step would
\* change the file and the store; run_scraper returns False for every store
\* with an active seller, so no step that changes them is reached.
RunMain ==
  /\ pc = "idle"
  /\ \E driver_ok, login_ok, rows_ok, import_ok \in BOOLEAN :
       LET sellers == Cardinality({r \in ssellers : r.is_active})
           steps == main_steps(sellers, driver_ok, login_ok, rows_ok, import_ok)
       IN orch' = [ran |-> TRUE, sellers |-> sellers, driver_ok |-> driver_ok,
                   login_ok |-> login_ok, rows_ok |-> rows_ok, steps |-> steps,
                   scraped |-> /\ sellers > 0
                               /\ run_scraper(sellers, driver_ok, login_ok, rows_ok),
                   result |-> Len(steps) = 5]
  /\ UNCHANGED <<pc, run, session, rows, cur, file, sjobs, ssellers, sproducts,
                 uuids, pre, imp, idLog, storage, index, crawl>>

----------------------------------------------------------------------------
Init ==
  /\ pc = "idle"
  /\ run = 0
  /\ session = NoSession
  /\ rows = <<>>
  /\ cur = 0
  /\ file = <<>>
  /\ sjobs = {}
  /\ ssellers = {}
  /\ sproducts = {}
  /\ uuids = 0
  /\ pre = EmptyStore
  /\ imp = NoImport
  /\ idLog = {}
  /\ storage = EmptyStorage
  /\ index = EmptyIndex
  /\ crawl = NoCrawl
  /\ orch = NoMain

\* The lifecycle specification: scraper runs and imports of their snapshots
Next ==
  \/ StartRun(MaxRuns, RowLists)
  \/ ScrapeRow
  \/ ProcessItem(MaxObs, {NoContainer})
  \/ EndRow
  \/ Finalize
  \/ StartImport(MaxImports)
  \/ ImportScrapeJob(BOOLEAN)
  \/ ImportSellers(BOOLEAN)
  \/ ImportProducts(BOOLEAN)

Spec == Init /\ [][Next]_vars

\* The lifecycle specification: more runs, each of the same single seller
NextLong ==
  \/ StartRun(MaxRunsLong, RowListsLong)
  \/ ScrapeRow
  \/ ProcessItem(MaxObs, {NoContainer})
  \/ EndRow
  \/ Finalize
  \/ StartImport(MaxImportsLong)
  \/ ImportScrapeJob({FALSE})
  \/ ImportSellers({FALSE})
  \/ ImportProducts({FALSE})

SpecLong == Init /\ [][NextLong]_vars

\* The single-run specification: one run with more items, the seller loader
NextBuild ==
  \/ StartRun(MaxRunsBuild, RowLists)
  \/ ScrapeRow
  \/ ProcessItem(MaxObsBuild, {NoContainer})
  \/ EndRow
  \/ Finalize
  \/ StartImport(MaxImports)
  \/ ImportScrapeJob(BOOLEAN)
  \/ ImportSellers(BOOLEAN)
  \/ ImportProducts(BOOLEAN)
  \/ LoadSellersCsv

SpecBuild == Init /\ [][NextBuild]_vars

\* The crawl specification: one run of one seller, with the photos of the items
NextCrawl ==
  \/ StartRun(MaxRunsBuild, RowListsLong)
  \/ ScrapeRow
  \/ ProcessItem(MaxObsCrawl, Photos)
  \/ EndRow
  \/ Finalize

SpecCrawl == Init /\ [][NextCrawl]_vars

\* The photos specification: one run of one seller, with the photos of the
\* items, and the import of its snapshot
NextPhotos ==
  \/ StartRun(MaxRunsBuild, RowListsLong)
  \/ ScrapeRow
  \/ ProcessItem(MaxObs, Photos)
  \/ EndRow
  \/ Finalize
  \/ StartImport(MaxImportsLong)
  \/ ImportScrapeJob({FALSE})
  \/ ImportSellers({FALSE})
  \/ ImportProducts({FALSE})

SpecPhotos == Init /\ [][NextPhotos]_vars

\* The loop specification: one run with the outcomes of the browser in the
\* loop over the items and the failures of a row and of the run, and the
\* import of its snapshot
NextLoop ==
  \/ StartRun(MaxRunsBuild, RowLists)
  \/ ScrapeRow
  \/ CatalogStep(MaxItems, MaxIterations)
  \/ EndRow
  \/ FailRow
  \/ AbortRun
  \/ Finalize
  \/ StartImport(MaxImportsLong)
  \/ ImportScrapeJob({FALSE})
  \/ ImportSellers({FALSE})
  \/ ImportProducts({FALSE})

SpecLoop == Init /\ [][NextLoop]_vars

\* The orchestrator specification: the seller loader, one run of the scraper
\* and its import to fill the store, and runs of main.py
NextMain ==
  \/ StartRun(MaxRunsBuild, RowListsLong)
  \/ ScrapeRow
  \/ ProcessItem(MaxObs, {NoContainer})
  \/ EndRow
  \/ Finalize
  \/ StartImport(MaxImportsLong)
  \/ ImportScrapeJob({FALSE})
  \/ ImportSellers({FALSE})
  \/ ImportProducts({FALSE})
  \/ LoadSellersCsv
  \/ RunMain

SpecMain == Init /\ [][NextMain]_vars

\* The index specification: one run, its import and the sync of the index
NextIndex ==
  \/ StartRun(MaxRunsBuild, RowLists)
  \/ ScrapeRow
  \/ ProcessItem(MaxObs, {NoContainer})
  \/ EndRow
  \/ Finalize
  \/ StartImport(MaxImportsLong)
  \/ ImportScrapeJob({FALSE})
  \/ ImportSellers({FALSE})
  \/ ImportProducts({FALSE})
  \/ IndexToAlgolia

SpecIndex == Init /\ [][NextIndex]_vars

\* The file specification: imports of snapshot files received from elsewhere
NextFile ==
  \/ ReceiveSnapshot
  \/ StartImport(MaxImportsLong)
  \/ ImportScrapeJob({FALSE})
  \/ ImportSellers({FALSE})
  \/ ImportProducts({FALSE})

SpecFile == Init /\ [][NextFile]_vars

\* The sellers specification: runs without items, whose sellers change
NextSellers ==
  \/ StartRun(MaxRuns, RowListsSellers)
  \/ ScrapeRow
  \/ EndRow
  \/ Finalize
  \/ StartImport(MaxImportsLong)
  \/ ImportScrapeJob({FALSE})
  \/ ImportSellers(BOOLEAN)
  \/ ImportProducts({FALSE})

SpecSellers == Init /\ [][NextSellers]_vars

\* The seller specification: calls of get_or_create_seller in one run
NextObserve ==
  \/ StartRun(MaxRunsBuild, RowListsLong)
  \/ ObserveSeller

SpecObserve == Init /\ [][NextObserve]_vars

\* The identity specification: calls of the identity functions
NextId ==
  \/ IdSeller
  \/ IdProduct

SpecId == Init /\ [][NextId]_vars

----------------------------------------------------------------------------
\* Vocabulary of the properties

\* the import of the saved file that ran last ended, with this outcome
LastOutcome == IF imp.outcomes = <<>> THEN "none" ELSE imp.outcomes[Len(imp.outcomes)]

\* the saved snapshot has just been reconciled: job, sellers and products imported
Reconciled == pc = "idle" /\ file # <<>> /\ LastOutcome = "ok"

\* the sellers and the links of the saved snapshot
SnapSellerIds == {file[1].sellers[i].id : i \in 1..Len(file[1].sellers)}
SnapProductSellerIds == {file[1].products[i].seller_id : i \in 1..Len(file[1].products)}
SnapLinks == {file[1].products[i].product_link : i \in 1..Len(file[1].products)} \ {None}

\* the title of the last product of the saved snapshot that has the link
SnapTitleOf(link) ==
  LET last == CHOOSE i \in 1..Len(file[1].products) :
                /\ file[1].products[i].product_link = link
                /\ \A j \in 1..Len(file[1].products) :
                     file[1].products[j].product_link = link => j <= i
  IN file[1].products[last].title

----------------------------------------------------------------------------
\* C1: after import_products has reconciled a snapshot, every store product of
\* a seller present in the snapshot whose product_link is not among the links
\* of the snapshot is removed, with removed_at set, and a product that was
\* removed before keeps its removed_at; also when the seller has no product in
\* the snapshot.
C1_MissingProductsRemoved ==
  Reconciled =>
    \A r \in sproducts :
      (/\ r.seller_id \in SnapSellerIds
       /\ r.product_link # None
       /\ r.product_link \notin SnapLinks)
      => /\ r.is_removed
         /\ r.removed_at # NoTime
         /\ \A q \in pre.products :
              (q.id = r.id /\ q.is_removed) => r.removed_at = q.removed_at

----------------------------------------------------------------------------
\* C2: after a snapshot has been reconciled, every store product whose
\* product_link is in the snapshot is active (is_removed false, removed_at
\* null) and has the title the snapshot gives for that link, also when the
\* product was removed by an earlier run and absent for further runs; so the
\* products observed in every run stay active.
C2_ObservedProductIsActive ==
  Reconciled =>
    \A r \in sproducts :
      r.product_link \in SnapLinks
      => /\ ~r.is_removed
         /\ r.removed_at = NoTime
         /\ r.title = SnapTitleOf(r.product_link)

\* a product removed two runs ago and absent in the run before (which saw the
\* seller's other product) is observed again with another title, and is active
C2_Witness ==
  /\ Reconciled
  /\ \E p, q \in pre.products :
       /\ p.id # q.id
       /\ p.seller_id = q.seller_id
       /\ p.is_removed
       /\ p.removed_at = Now - 2
       /\ p.product_link \in SnapLinks
       /\ ~q.is_removed
       /\ q.last_seen_scrape_job_id = run - 1
       /\ q.product_link \in SnapLinks
       /\ \E p2, q2 \in sproducts :
            /\ p2.id = p.id
            /\ ~p2.is_removed
            /\ p2.removed_at = NoTime
            /\ p2.title # p.title
            /\ p2.last_seen_scrape_job_id = run
            /\ q2.id = q.id
            /\ ~q2.is_removed

----------------------------------------------------------------------------
\* the saved snapshot never mentions the seller: it is not among its sellers
\* and it is the seller of none of its products
Unmentioned(seller_id) ==
  seller_id \notin SnapSellerIds /\ seller_id \notin SnapProductSellerIds

\* C3 as stated: reconciling a snapshot that never mentions seller T leaves
\* every store product of T unchanged in every field, whatever links the
\* products of the snapshot carry.
C3_UnmentionedSellerUntouched ==
  file # <<>> =>
    \A r \in pre.products : Unmentioned(r.seller_id) => r \in sproducts

\* C3 as amended: reconciling a snapshot that never mentions seller T leaves
\* unchanged, in every field, every store product of T whose product_link is
\* not a link of the snapshot (a product without a link included).
C3_UnmentionedSellerUntouchedUnlessLinked ==
  file # <<>> =>
    \A r \in pre.products :
      (Unmentioned(r.seller_id) /\ r.product_link \notin SnapLinks)
      => r \in sproducts

\* a snapshot of another seller, with links, has been reconciled and has
\* written products, and an active linked product of T is as it was
C3_Witness ==
  /\ Reconciled
  /\ SnapLinks # {}
  /\ imp.result[1].inserted + imp.result[1].updated > 0
  /\ \E r \in pre.products :
       /\ Unmentioned(r.seller_id)
       /\ r.product_link # None
       /\ ~r.is_removed
       /\ r \in sproducts

----------------------------------------------------------------------------
\* the import that ran last failed in one of its steps
DbFailures == {"job_db", "sellers_db", "products_db"}
ImportFailed ==
  pc = "idle" /\ LastOutcome \in DbFailures \cup {"sellers", "products"}

\* C4: reconciling one snapshot is all-or-nothing: when a step of the import
\* fails, the store holds none of the changes of that import (no job row, no
\* seller row, no product row): it is the store the import started with.
C4_ImportAllOrNothing ==
  ImportFailed => Store = pre

\* C5: reconciling the identical snapshot twice in a row succeeds both times,
\* the second pass counts (inserted, updated, removed, reactivated) =
\* (0, N, 0, 0) with N the number of products of the snapshot, and the store
\* has the same product rows after the second pass as after the first.
C5_IdempotentReimport ==
  (/\ pc = "idle"
   /\ Len(imp.outcomes) >= 2
   /\ imp.outcomes[Len(imp.outcomes) - 1] = "ok"
   /\ LastOutcome \notin DbFailures \cup {"csv"})
  => /\ LastOutcome = "ok"
     /\ imp.result = << [inserted |-> 0, updated |-> Len(file[1].products),
                         removed |-> 0, reactivated |-> 0] >>
     /\ {r.id : r \in sproducts} = {r.id : r \in pre.products}

\* the observations of the saved run that saw the link, in order
ObsOfLink(link) ==
  {i \in 1..Len(file[1].obs) : file[1].obs[i].product_link = link}

\* C6: when one run observes the same product twice (same seller, same
\* product_link, different titles), then after the snapshot is reconciled the
\* store holds exactly one product row for that link, with the title of the
\* second observation.
C6_LaterObservationWins ==
  Reconciled =>
    \A link \in Links :
      \A i, j \in ObsOfLink(link) :
        (/\ ObsOfLink(link) = {i, j}
         /\ i < j
         /\ file[1].obs[i].seller_id = file[1].obs[j].seller_id
         /\ file[1].obs[i].title # file[1].obs[j].title)
        => /\ Cardinality({r \in sproducts : r.product_link = link}) = 1
           /\ \A r \in sproducts :
                r.product_link = link => r.title = file[1].obs[j].title

\* C7: the seller id and the product id are functions of their input: two
\* calls with the same input return the same id, and no id is a freshly
\* generated random value.
C7_IdsAreDeterministic ==
  /\ \A a, b \in idLog :
       (/\ a.fn = b.fn
        /\ a.product_link = b.product_link
        /\ a.title = b.title
        /\ a.catalogue_url = b.catalogue_url)
       => a.id = b.id
  /\ \A a \in idLog : a.id[1] # "uuid4"

\* C8: in every path that writes sellers the id of a seller is the hash of its
\* catalogue_url, the store holds one seller row per catalogue_url, and the
\* import of a seller never fails because the seller is already stored.
C8_SellerIdFromUrl ==
  /\ \A r \in ssellers : r.id = <<"md5", r.catalogue_url>>
  /\ \A r1, r2 \in ssellers : r1.catalogue_url = r2.catalogue_url => r1 = r2
  /\ \A i \in 1..Len(imp.outcomes) : imp.outcomes[i] # "sellers"

\* the products built so far by the running scraper, and those of the saved file
BuiltProducts ==
  {session.products[i] : i \in 1..Len(session.products)}
    \cup (IF file = <<>> THEN {}
          ELSE {file[1].products[i] : i \in 1..Len(file[1].products)})

\* C9: in the snapshot a crawl produces, the id of a product that has a
\* product_link is the hash of that link (so two products with the same link
\* have the same id).
C9_LinkedIdFromLink ==
  \A p \in BuiltProducts :
    p.product_link # None => p.id = <<"md5", p.product_link>>

\* C10: two products without a product_link that differ in title get distinct
\* ids, for the same seller and for different sellers.
C10_UnlinkedTitlesDistinctIds ==
  \A a, b \in idLog :
    (/\ a.fn = "product" /\ b.fn = "product"
     /\ Falsy(a.product_link) /\ Falsy(b.product_link)
     /\ a.title # b.title)
    => a.id # b.id

----------------------------------------------------------------------------
\* the products of the saved snapshot
SnapProducts == {file[1].products[i] : i \in 1..Len(file[1].products)}

\* C11: two observations without product_link that have the same title and
\* the same seller catalogue_url are the same product, within one run and
\* across runs: when the first import of a snapshot whose products all lack a
\* link ends without an error of the database connection, it has not failed
\* because a product already exists, and the store holds exactly one row for
\* every product of the snapshot, seen by the job of the snapshot.
C11_UnlinkedSameProductOneRow ==
  (/\ pc = "idle"
   /\ file # <<>>
   /\ imp.n = 1
   /\ LastOutcome \in {"ok", "products"}
   /\ \A p \in SnapProducts : p.product_link = None)
  => /\ LastOutcome = "ok"
     /\ \A p \in SnapProducts :
          /\ Cardinality({r \in sproducts : r.id = p.id}) = 1
          /\ \A r \in sproducts :
               r.id = p.id => r.last_seen_scrape_job_id = file[1].scrape_job.id

----------------------------------------------------------------------------
\* C12: in every reachable state, every product of the snapshot and every
\* product of the store is removed exactly when it has a removed_at: never a
\* removed product with removed_at null, never an active product with a
\* removed_at timestamp.
C12_RemovedIffRemovedAt ==
  \A p \in BuiltProducts \cup sproducts :
    p.is_removed <=> p.removed_at # NoTime

\* the store holds a removed product, and a product that was removed when the
\* import started is active again
C12_Witness ==
  /\ Reconciled
  /\ \E r \in sproducts : r.is_removed /\ r.removed_at # NoTime
  /\ \E q \in pre.products :
       /\ q.is_removed
       /\ \E q2 \in sproducts :
            q2.id = q.id /\ ~q2.is_removed /\ q2.removed_at = NoTime

----------------------------------------------------------------------------
\* the reconciled snapshot contains the store product r: a product with the
\* link of r, or, for an r without link, a product without link with its id
Observed(r) ==
  \/ r.product_link \in SnapLinks
  \/ /\ r.product_link = None
     /\ \E p \in SnapProducts : p.product_link = None /\ p.id = r.id

\* C13: after every successful reconciliation, last_seen_scrape_job_id of a
\* store product is the job of the snapshot for every product the snapshot
\* contains (inserted or updated by this import), and is what it was before
\* the import for every product the run did not observe.
C13_LastSeenIsMostRecentJob ==
  Reconciled =>
    \A r \in sproducts :
      IF Observed(r)
      THEN r.last_seen_scrape_job_id = file[1].scrape_job.id
      ELSE \E q \in pre.products :
             /\ q.id = r.id
             /\ q.last_seen_scrape_job_id = r.last_seen_scrape_job_id

\* an import has updated a product last seen by an earlier job, and has left
\* alone another product that its snapshot does not contain
C13_Witness ==
  /\ Reconciled
  /\ \E q \in pre.products, r \in sproducts :
       /\ q.id = r.id
       /\ Observed(r)
       /\ q.last_seen_scrape_job_id < file[1].scrape_job.id
       /\ r.last_seen_scrape_job_id = file[1].scrape_job.id
  /\ \E r \in sproducts :
       ~Observed(r) /\ r.last_seen_scrape_job_id < file[1].scrape_job.id

----------------------------------------------------------------------------
\* a product of the saved snapshot lacks a required field
Malformed == \E p \in SnapProducts : p.id = Missing \/ p.title = Missing

\* C14: a snapshot with a required field missing (a product without id or
\* without title) makes the import fail before any store mutation: when the
\* import has ended, it has failed and the store is the store it started
\* with (no job row, no seller row of the snapshot).
C14_MalformedSnapshotFailsFast ==
  (pc = "idle" /\ file # <<>> /\ imp.outcomes # <<>> /\ Malformed)
  => LastOutcome # "ok" /\ Store = pre

----------------------------------------------------------------------------
\* C15: when the reconciliation of a snapshot fails in the store, the job of
\* the run ends with status failed: after the first import of a snapshot has
\* failed, every row the store has for the job of that snapshot has status
\* failed; the job is never left recorded as completed.
C15_FailedImportMarksJobFailed ==
  (ImportFailed /\ file # <<>> /\ imp.n = 1)
  => \A j \in sjobs : j.id = file[1].scrape_job.id => j.status = "failed"

----------------------------------------------------------------------------
\* the observation the running crawl made last, and the product it built
LastObs == session.obs[Len(session.obs)]
LastObsProduct == session.products[IndexOfId(session.products, LastObs.id)]

\* C16: in save_product_images a failure to fetch or to upload one image is
\* isolated to that image: when an item whose product has no images yet and
\* no files in the bucket has been processed, the product is in the snapshot
\* with the URLs of exactly the images that succeeded, in order, each
\* uploaded once (the crawl of the seller goes on with the next item).
C16_ImageFailureIsolated ==
  (/\ pc = "scrape"
   /\ session.obs # <<>>
   /\ LastObs.photos.container
   /\ LastObs.had_images = <<>>
   /\ LastObs.had_files = {})
  => /\ IndexOfId(session.products, LastObs.id) # 0
     /\ LastObsProduct.images =
          image_urls_of(base_path(LastObsProduct),
                        {i \in 1..Len(LastObs.photos.imgs) :
                           LastObs.photos.imgs[i] = "ok"})
     /\ LastObs.uploads = Len(LastObsProduct.images)

\* the first image of an item failed to upload and its second image is in the
\* snapshot; the crawl has processed another item after it
C16_Witness ==
  /\ pc = "scrape"
  /\ Len(session.obs) = 2
  /\ session.obs[1].photos.imgs = <<"upload_failed", "ok">>
  /\ session.obs[1].id # session.obs[2].id
  /\ LET p == session.products[IndexOfId(session.products, session.obs[1].id)]
     IN p.images = << <<base_path(p), 2>> >>
  /\ LastObs.photos.imgs = <<"ok", "fetch_failed">>
  /\ Len(LastObsProduct.images) = 1

----------------------------------------------------------------------------
\* C19: when a product already in the snapshot is observed again in the same
\* run, its images are preserved if they were populated: on every path of
\* process_catalog_items a product whose images list was non-empty before the
\* re-observation has the same list after it, and no image is uploaded again.
C19_ReobservationKeepsImages ==
  (/\ pc = "scrape"
   /\ session.obs # <<>>
   /\ LastObs.had_images # <<>>)
  => /\ LastObsProduct.images = LastObs.had_images
     /\ LastObs.uploads = 0

----------------------------------------------------------------------------
\* C17: a failure during the sync of the search index is isolated per item:
\* when the sync of a reconciled snapshot has failed on one product, every
\* other product of the snapshot is in the index.
C17_IndexFailureIsolated ==
  (Reconciled /\ index.result = "failed")
  => \A i \in 1..Len(file[1].products) :
       i # index.failed => file[1].products[i].id \in index.objects

----------------------------------------------------------------------------
\* the sellers map holds at most one entry for a catalogue_url
OneSellerPerUrl ==
  \A i, j \in 1..Len(session.sellers) :
    session.sellers[i].catalogue_url = session.sellers[j].catalogue_url => i = j

\* a call in a run inserts at most one seller and changes no seller of the map
SellersKept ==
  session'.scrape_job.id = session.scrape_job.id
  => /\ Len(session'.sellers) \in {Len(session.sellers), Len(session.sellers) + 1}
     /\ \A i \in 1..Len(session.sellers) : session'.sellers[i] = session.sellers[i]

\* C18: get_or_create_seller is an idempotent get-or-create: for every
\* catalogue_url the first call inserts one seller, a later call in the same
\* run changes no field of it (name, city, contact, catalogue_url, is_active
\* keep the values of the first call), and the sellers map never holds two
\* entries for one catalogue_url.
C18_GetOrCreateSellerIdempotent ==
  [][SellersKept]_vars /\ []OneSellerPerUrl

----------------------------------------------------------------------------
\* import_sellers has succeeded in the import of the saved file that ran last
SellersImported ==
  /\ file # <<>>
  /\ \/ pc = "import_products"
     \/ pc = "idle" /\ LastOutcome \in {"ok", "products", "products_db"}

\* C20: import_sellers upserts each seller of the snapshot by id with
\* last-write-wins: after it has succeeded, the store has exactly one row for
\* every seller of the snapshot, with the name, city, contact, catalogue_url
\* and is_active of the snapshot and with the created_at the row had before
\* if it existed; and no import ever deletes a seller row.
C20_SellerUpsertLastWriteWins ==
  /\ \A q \in pre.sellers : \E r \in ssellers : r.id = q.id
  /\ SellersImported =>
       \A i \in 1..Len(file[1].sellers) :
         LET seller == file[1].sellers[i]
         IN /\ Cardinality({r \in ssellers : r.id = seller.id}) = 1
            /\ \A r \in ssellers :
                 r.id = seller.id =>
                   /\ r.name = seller.name
                   /\ r.city = seller.city
                   /\ r.contact = seller.contact
                   /\ r.catalogue_url = seller.catalogue_url
                   /\ r.is_active = seller.is_active
                   /\ \A q \in pre.sellers :
                        q.id = seller.id => r.created_at = q.created_at

\* the import has given a stored seller another name and another city and
\* has kept its created_at, which is earlier than that of the snapshot
C20_Witness ==
  /\ SellersImported
  /\ \E q \in pre.sellers, r \in ssellers, i \in 1..Len(file[1].sellers) :
       /\ q.id = r.id
       /\ file[1].sellers[i].id = r.id
       /\ q.city # r.city
       /\ q.name # r.name
       /\ r.created_at = q.created_at
       /\ r.created_at < file[1].sellers[i].created_at

----------------------------------------------------------------------------
\* C21: import_products sends a linked product that the store has to the
\* update path and a product the store does not have to the insert path; the
\* update keeps the id and the created_at of the store row; and no product is
\* sent to the insert path with an id that is already in the store. Stated
\* for the linked products, the ones import_products looks up in the store:
\* when import_products starts, no linked product of its insert path has the
\* id of a store row, and after the import every row the store had before has
\* the created_at it had.
C21_InsertPathHasNewIds ==
  /\ pc = "import_products" =>
       \A p \in insert_path(sproducts, file[1].products) :
         ~Falsy(p.product_link) => \A r \in sproducts : r.id # p.id
  /\ Reconciled =>
       \A q \in pre.products : \A r \in sproducts :
         r.id = q.id => r.created_at = q.created_at

----------------------------------------------------------------------------
\* C27: the import stores photo_count and scraped_at as they are in the
\* snapshot: after the import of a snapshot, the store row of every product
\* of the snapshot has the photo_count and the scraped_at add_product gave it.
C27_PhotoCountAndScrapedAtStored ==
  Reconciled =>
    \A i \in 1..Len(file[1].products) : \A r \in sproducts :
      r.id = file[1].products[i].id =>
        /\ r.photo_count = file[1].products[i].photo_count
        /\ r.scraped_at = file[1].products[i].scraped_at

----------------------------------------------------------------------------
\* the products of a snapshot are active, were last seen by its job, have
\* pairwise distinct ids and belong to sellers of the snapshot
SnapshotConsistent(snapshot) ==
  \A i \in 1..Len(snapshot.products) :
    LET p == snapshot.products[i]
    IN /\ p.is_removed = FALSE
       /\ p.removed_at = NoTime
       /\ p.last_seen_scrape_job_id = snapshot.scrape_job.id
       /\ \A j \in 1..Len(snapshot.products) :
            j # i => snapshot.products[j].id # p.id
       /\ \E k \in 1..Len(snapshot.sellers) : snapshot.sellers[k].id = p.seller_id

\* C25: after any sequence of get_or_create_seller and add_product calls in a
\* run, every product of the snapshot has is_removed = false, removed_at =
\* null and last_seen_scrape_job_id = the id of the job, the product ids are
\* pairwise distinct and every seller_id is the id of a seller of the
\* snapshot; this holds while the run builds the snapshot and in the file.
C25_SnapshotConsistent ==
  /\ pc = "scrape" => SnapshotConsistent(session)
  /\ file # <<>> => SnapshotConsistent(file[1])

\* a run has observed three items of two sellers, one of them twice
C25_Witness ==
  /\ file # <<>>
  /\ Len(file[1].obs) = 3
  /\ Len(file[1].products) = 2
  /\ Len(file[1].sellers) = 2
  /\ file[1].products[1].seller_id # file[1].products[2].seller_id

----------------------------------------------------------------------------
\* C26: no observed listing is lost by the snapshot builder: when a crawl has
\* observed in-stock matching items of a seller with different product_links,
\* the snapshot written at the end of the run has a product of that seller
\* for each of the links, also when the items have the same title.
C26_NoObservedLinkLost ==
  file # <<>> =>
    \A o \in 1..Len(file[1].obs) :
      file[1].obs[o].product_link # None =>
        \E i \in 1..Len(file[1].products) :
          /\ file[1].products[i].product_link = file[1].obs[o].product_link
          /\ file[1].products[i].seller_id = file[1].obs[o].seller_id

----------------------------------------------------------------------------
\* the sellers of the saved snapshot have their rows in the store
SellersStored ==
  \A i \in 1..Len(file[1].sellers) :
    \E r \in ssellers : r.id = file[1].sellers[i].id

\* C24: the import steps run in the order scrape job, sellers, products, and
\* a step is attempted only if every earlier step succeeded: the sellers step
\* starts with the job stored and nothing else changed, the products step
\* starts with the job and the sellers stored and no product changed; after
\* import_scrape_job has failed the store is as it was before the import,
\* after import_sellers has failed no seller and no product has changed, and
\* in both cases the import has ended and has not reported success.
C24_ImportStepsInOrder ==
  /\ pc = "import_job" => Store = pre
  /\ pc = "import_sellers" =>
       /\ file[1].scrape_job \in sjobs
       /\ ssellers = pre.sellers
       /\ sproducts = pre.products
  /\ pc = "import_products" =>
       /\ file[1].scrape_job \in sjobs
       /\ SellersStored
       /\ sproducts = pre.products
  /\ pc = "idle" /\ LastOutcome = "job_db" => Store = pre
  /\ pc = "idle" /\ LastOutcome \in {"sellers", "sellers_db"} =>
       /\ file[1].scrape_job \in sjobs
       /\ ssellers = pre.sellers
       /\ sproducts = pre.products

\* import_sellers has failed in the import of a snapshot with products, after
\* import_scrape_job had stored the job
C24_Witness ==
  /\ pc = "idle"
  /\ LastOutcome = "sellers_db"
  /\ file[1].products # <<>>
  /\ file[1].scrape_job \in sjobs
  /\ file[1].scrape_job \notin pre.jobs

----------------------------------------------------------------------------
\* add_product was never called for an item out of stock, and no product of
\* the snapshot is out of stock
InStockOnly(snapshot) ==
  /\ \A o \in 1..Len(snapshot.obs) : ~is_out_of_stock(snapshot.obs[o].price_text)
  /\ \A i \in 1..Len(snapshot.products) :
       snapshot.products[i].is_out_of_stock = FALSE

\* C22: out-of-stock items are filtered before they reach the store:
\* process_catalog_items never calls add_product for an item it found out of
\* stock, so every product of the snapshot, during the run and in the file,
\* and every product row written by the import of the snapshot has
\* is_out_of_stock = false.
C22_OutOfStockFiltered ==
  /\ pc = "scrape" => InStockOnly(session)
  /\ file # <<>> => InStockOnly(file[1])
  /\ Reconciled =>
       \A i \in 1..Len(file[1].products) : \A r \in sproducts :
         r.id = file[1].products[i].id => r.is_out_of_stock = FALSE

\* the loop has found one item out of stock and has scraped another one
C22_Witness ==
  /\ pc = "scrape"
  /\ crawl.out_of_stock = 1
  /\ crawl.items_scraped = 1
  /\ Len(session.products) = 1

----------------------------------------------------------------------------
\* an iteration of the loop of process_catalog_items has run
LoopIteration ==
  /\ pc = "scrape"
  /\ cur # 0
  /\ cur' = cur
  /\ crawl'.iterations = crawl.iterations + 1

\* C28: process_catalog_items terminates for every catalogue with finitely
\* many items: whatever the browser does, every iteration of its loop that
\* does not leave the loop advances the item index, so no item is retried
\* without bound.
C28_EveryIterationAdvances ==
  [][LoopIteration => crawl'.index > crawl.index]_vars

----------------------------------------------------------------------------
\* the scraper process ends: it has written the file or it has given up
RunEnds == pc = "scrape" /\ pc' = "idle"

\* C23: a ScrapeJob is created with status running and completed_at null and
\* keeps them while the run lasts; at the end of the run its status changes
\* once, to completed or (on an unrecoverable error) to failed, together with
\* completed_at and the final counts; it becomes completed only after every
\* seller row has been processed, and the snapshot file is written only with
\* a finalized job.
C23_JobLifecycle ==
  /\ [](pc = "scrape" =>
          /\ session.scrape_job.status = "running"
          /\ session.scrape_job.completed_at = NoTime)
  /\ [](file # <<>> =>
          /\ file[1].scrape_job.status \in {"completed", "failed"}
          /\ file[1].scrape_job.completed_at # NoTime)
  /\ [][RunEnds =>
          /\ file' # <<>>
          /\ file'[1].scrape_job.id = session.scrape_job.id
          /\ file'[1].scrape_job.status \in {"completed", "failed"}
          /\ file'[1].scrape_job.total_sellers = Len(session.sellers)
          /\ file'[1].scrape_job.status = "completed" => rows = <<>> /\ cur = 0]_vars

----------------------------------------------------------------------------
\* C30: a failure while crawling one seller does not stop the run: scrape_row
\* catches the error and returns 0, the later rows are crawled and the job is
\* finalized as completed; in the file of a run in which the crawl of a row
\* failed, total_sellers is the number of sellers of the snapshot and
\* total_items is the number of products of the snapshot.
C30_RowFailureIsolated ==
  file # <<>> /\ crawl.failed_rows > 0 =>
    /\ file[1].scrape_job.status = "completed"
    /\ file[1].scrape_job.total_sellers = Len(file[1].sellers)
    /\ file[1].scrape_job.total_items = Len(file[1].products)

----------------------------------------------------------------------------
\* the steps of main.py in their order
MainOrder == <<"load", "csv", "scrape", "import", "index">>

\* the step is among the steps the last run of main.py has run
MainRan(step) == \E i \in 1..Len(orch.steps) : orch.steps[i] = step

\* C29: main.py runs its steps in the order load sellers, scrape, import,
\* index; the import step runs if and only if the scrape step returned
\* success; and the scrape step returns success whenever driver setup and
\* login succeed and every seller row is scraped without an unrecoverable
\* error, so a run with at least one active seller and a working browser
\* reaches the import step.
C29_MainReachesImport ==
  orch.ran =>
    /\ \A i \in 1..Len(orch.steps) : orch.steps[i] = MainOrder[i]
    /\ MainRan("import") <=> orch.scraped
    /\ orch.sellers > 0 /\ orch.driver_ok /\ orch.login_ok /\ orch.rows_ok =>
         MainRan("import")

====
